---- MODULE Spec2Model ----
(***************************************************************************)
(* Real-time hybrid voice-phishing detection: the scoring engine           *)
(* (VoicePhishingDetector), the per-call session (HybridPhishingSession)   *)
(* and the streaming pipeline (transcribe_ws, _recv_audio, _pump) over the *)
(* STT adapter (GrpcSTTStream).                                            *)
(*                                                                         *)
(* Text is a sequence of one-character strings.  Hangul does not lex, so   *)
(* "D" stands for U+B2E4 and "Y" for U+C694 (the two sentence-final        *)
(* particles of _should_force_finalize).  Floats are exact rationals:      *)
(* cumulative_probability is kept in units of 1/Scale points.              *)
(***************************************************************************)
EXTENDS Integers, Sequences, FiniteSets, TLC

\* ------------------------------------------------------------------ bounds
MaxOps == 3          \* session operations per behaviour of Spec
MaxFaults == 1       \* classifier exceptions injected per behaviour
MaxMsgs == 2         \* frames and text messages a client sends per connection

\* ------------------------------------------------------- optional values
None == <<>>
Some(x) == <<x>>
IsNone(o) == o = <<>>
Val(o) == o[1]

\* ------------------------------------------------------------ arithmetic
Min(a, b) == IF a <= b THEN a ELSE b
Max(a, b) == IF a >= b THEN a ELSE b

RECURSIVE Fact(_)
Fact(n) == IF n <= 1 THEN 1 ELSE n * Fact(n - 1)

\* One point of probability.  A repeat factor is a mean of at most two
\* terms 1/(1+prev) with 1+prev <= MaxOps+1, and safe_decay is 3/2, so every
\* score reachable within the bounds is a whole number of 1/Scale points.
Scale == 2 * 2 * Fact(MaxOps + 1)

\* ------------------------------------------------------------------ text
SP == " "
Punct == {".", "!", "?"}

RECURSIVE LStrip(_)
LStrip(t) == IF t # <<>> /\ Head(t) = SP THEN LStrip(Tail(t)) ELSE t

RECURSIVE RStrip(_)
RStrip(t) ==
  IF t # <<>> /\ t[Len(t)] = SP THEN RStrip(SubSeq(t, 1, Len(t) - 1)) ELSE t

\* str.strip()
strip(t) == RStrip(LStrip(t))

\* str.count(" ")
count_spaces(t) == Cardinality({i \in 1..Len(t) : t[i] = SP})

\* ------------------------------------------------- scoring engine: lexicon
\* The lexicon files (data/csv) are data, not code: the model lexicon has one
\* word per case of _calculate_risk_level.  Weights are in tenths.
W_ln == <<"l", "n">>     \* weight 1.5, type1
W_ac == <<"a", "c">>     \* weight 1.9, type1
W_pr == <<"p", "r">>     \* weight 1.3 (= RISK_THRESHOLD), type2
W_sc == <<"s", "c">>     \* weight 6.1, in neither type column
W_hi == <<"h", "i">>     \* weight 1.2, below RISK_THRESHOLD
W_ok == <<"o", "k">>     \* a noun that is not in the lexicon

df == (W_ln :> 15) @@ (W_ac :> 19) @@ (W_pr :> 13) @@ (W_sc :> 61) @@ (W_hi :> 12)
type1_df == (W_ln :> 14) @@ (W_ac :> 12)
type2_df == (W_pr :> 18)
Nouns == DOMAIN df \cup {W_ok}
Keywords == {w \in DOMAIN df : df[w] >= 13}

\* okt.pos(text): the morphological analyser, as far as the engine reads it:
\* words are cut at spaces, a punctuation mark is a token of its own, and a
\* word of the dictionary is a Noun.
okt_cuts(t) ==
  {i \in 1..(Len(t) - 1) :
     \/ t[i] = SP \/ t[i] \in Punct
     \/ t[i + 1] = SP \/ t[i + 1] \in Punct}

\* the token boundary nearest to the middle of the text
okt_middle(t, cuts) ==
  CHOOSE c \in cuts :
    \A d \in cuts : (2 * c - Len(t)) * (2 * c - Len(t))
                      <= (2 * d - Len(t)) * (2 * d - Len(t))

\* the words of the text, read as the words of its two parts around a token
\* boundary (a text without one is a single word, a mark or a space)
RECURSIVE okt_scan(_)
okt_split(t, c) == okt_scan(SubSeq(t, 1, c)) \o okt_scan(SubSeq(t, c + 1, Len(t)))

okt_scan(t) ==
  IF t = <<>> \/ t = <<SP>> THEN <<>>
  ELSE IF okt_cuts(t) = {} THEN <<t>>
  ELSE okt_split(t, okt_middle(t, okt_cuts(t)))

okt_tag(ws) ==
  [i \in 1..Len(ws) |->
     [word |-> ws[i],
      pos |-> IF ws[i] \in Nouns THEN "Noun"
              ELSE IF Len(ws[i]) = 1 /\ ws[i][1] \in Punct THEN "Punctuation"
              ELSE "Other"]]

okt_pos(text) == okt_tag(okt_scan(text))

\* token_ko: the words longer than one character tagged Noun or Adverb
RECURSIVE SelectSeqIdx(_, _)
SelectSeqIdx(toks, i) ==
  IF i > Len(toks) THEN <<>>
  ELSE IF Len(toks[i].word) > 1 /\ toks[i].pos \in {"Noun", "Adverb"}
       THEN <<toks[i].word>> \o SelectSeqIdx(toks, i + 1)
       ELSE SelectSeqIdx(toks, i + 1)

token_ko(text) == SelectSeqIdx(okt_pos(text), 1)

\* VoicePhishingDetector.level_from_probability, on a value in 1/unit points
level_from_probability(p, unit) ==
  IF p < 3 * unit THEN 0
  ELSE IF p < 8 * unit THEN 1
  ELSE IF p < 15 * unit THEN 2
  ELSE 3

RISK_THRESHOLD10 == 13

\* the loop of _calculate_risk_level over token_ko: risk_score, token_dict
\* (word -> count), detected_keywords and keyword_details
RECURSIVE risk_loop(_, _)
risk_loop(words, st) ==
  IF words = <<>> THEN st
  ELSE LET word == Head(words) IN
    IF word \in DOMAIN df /\ df[word] >= RISK_THRESHOLD10 THEN
      LET word_score == df[word] - 10
          seen == word \in DOMAIN st.token_dict
      IN risk_loop(Tail(words),
           [risk_score |-> st.risk_score + word_score,
            token_dict |-> IF seen
                           THEN [st.token_dict EXCEPT ![word] = @ + 1]
                           ELSE st.token_dict @@ (word :> 1),
            detected_keywords |-> IF seen THEN st.detected_keywords
                                  ELSE Append(st.detected_keywords, word),
            keyword_details |-> IF seen THEN st.keyword_details
                                ELSE Append(st.keyword_details,
                                       [word |-> word, weight |-> df[word],
                                        score |-> word_score])])
    ELSE risk_loop(Tail(words), st)

\* the loop of _calculate_risk_level over token_df (word, count): the
\* type1 and type2 scores, in tenths of a point times ten
RECURSIVE type_loop(_, _, _)
type_loop(words, td, acc) ==
  IF words = <<>> THEN acc
  ELSE LET word == Head(words) IN
    IF word \in DOMAIN type1_df
    THEN type_loop(Tail(words), td,
           [acc EXCEPT !.type1_score = @ + (type1_df[word] - 10) * td[word]])
    ELSE IF word \in DOMAIN type2_df
    THEN type_loop(Tail(words), td,
           [acc EXCEPT !.type2_score = @ + (type2_df[word] - 10) * td[word]])
    ELSE type_loop(Tail(words), td, acc)

\* the result tuple of _calculate_risk_level, from the loops' results
risk_result(st, ts) ==
  [level |-> level_from_probability(Min(st.risk_score, 100), 1),
   probability |-> Min(st.risk_score, 100),
   phishing_type |-> IF st.detected_keywords = <<>> THEN None
                     ELSE IF ts.type1_score > ts.type2_score THEN Some("loan")
                     ELSE Some("agency"),
   keywords |-> st.detected_keywords,
   keyword_details |-> st.keyword_details,
   method |-> "word_based"]

risk_typed(st) ==
  risk_result(st, type_loop(st.detected_keywords, st.token_dict,
                            [type1_score |-> 0, type2_score |-> 0]))

\* VoicePhishingDetector._calculate_risk_level
calculate_risk_level(text) ==
  risk_typed(risk_loop(token_ko(text),
                       [risk_score |-> 0, token_dict |-> <<>>,
                        detected_keywords |-> <<>>, keyword_details |-> <<>>]))

IMMEDIATE_MIN_CHARS == 3

ZeroImmediate ==
  [level |-> 0, probability |-> 0, phishing_type |-> None,
   keywords |-> <<>>, keyword_details |-> <<>>, method |-> "word_based"]

\* whether detect_immediate(text) runs the lexical analysis (and can raise)
immediate_analyses(text) == Len(strip(text)) >= IMMEDIATE_MIN_CHARS

\* VoicePhishingDetector.detect_immediate
detect_immediate(text) ==
  IF ~immediate_analyses(text) THEN ZeroImmediate
  ELSE calculate_risk_level(strip(text))

COMPREHENSIVE_MIN_CHARS == 10
KOBERT_THRESHOLD100 == 35

\* whether detect_comprehensive(text) runs the model (and can raise)
comprehensive_predicts(text) == Len(strip(text)) >= COMPREHENSIVE_MIN_CHARS

\* The trained classifier, softmax(model(tokens))[1] in hundredths: a pure
\* function of the text.  The weights are data, not code: the model's stand-in
\* gives 0.20 to a text without lexicon keywords, 0.35 (the threshold itself)
\* to one keyword occurrence, and 0.15 more for each further one.
keyword_occurrences(ws) == Cardinality({i \in 1..Len(ws) : ws[i] \in Keywords})

kobert_model(text) == Min(99, 20 + 15 * keyword_occurrences(token_ko(text)))

\* the decision of _predict_kobert on the positive-class probability
kobert_decision(prob_phishing) ==
  [is_phishing |-> prob_phishing >= KOBERT_THRESHOLD100, confidence |-> prob_phishing]

\* VoicePhishingDetector._predict_kobert
predict_kobert(text) == kobert_decision(kobert_model(text))

comprehensive_result(r, text) ==
  [is_phishing |-> r.is_phishing, confidence |-> r.confidence,
   method |-> "kobert", analyzed_length |-> Len(text)]

\* VoicePhishingDetector.detect_comprehensive
detect_comprehensive(text) ==
  IF ~comprehensive_predicts(text)
  THEN [is_phishing |-> FALSE, confidence |-> 0, method |-> "kobert",
        analyzed_length |-> 0]
  ELSE comprehensive_result(predict_kobert(text), text)

\* ------------------------------------------------------- session: config
WINDOW_SIZE == 5
MIN_SENTENCES_FOR_KOBERT == 1
MIN_CHARS_FOR_KOBERT == 6
ADD_SENTENCE_MIN_CHARS == 5
RISK_GAIN == 1
SAFE_DECAY2 == 3                    \* safe_decay = 1.5, in halves
FORCE_FINAL_ENABLED == TRUE
FinalMarkers == {".", "!", "?", "D", "Y"}

\* HybridPhishingSession.__init__
NewSession(window_size, id, now) ==
  [window_size |-> window_size,
   sentence_buffer |-> <<>>,
   accumulated_text |-> <<>>,
   kobert_result |-> None,
   sentence_count |-> 0,
   cumulative_probability |-> 0,
   cumulative_keywords |-> <<>>,
   keyword_counts |-> <<>>,
   cumulative_keyword_details |-> <<>>,
   keyword_detail_keys |-> {},
   cumulative_phishing_type |-> None,
   conversation_log |-> <<>>,
   session_id |-> id,
   started_at |-> now,
   current_sentence |-> <<>>]

\* dict.get(kw, 0) on _keyword_counts
count_of(kc, kw) == IF kw \in DOMAIN kc THEN kc[kw] ELSE 0

RECURSIVE merge_kw_loop(_, _)
merge_kw_loop(s, kws) ==
  IF kws = <<>> THEN s
  ELSE LET kw == Head(kws) IN
    IF kw = <<>> THEN merge_kw_loop(s, Tail(kws))
    ELSE merge_kw_loop(
           [s EXCEPT !.keyword_counts =
                       IF kw \in DOMAIN @ THEN [@ EXCEPT ![kw] = @ + 1]
                       ELSE @ @@ (kw :> 1),
                     !.cumulative_keywords = Append(@, kw)],
           Tail(kws))

RECURSIVE merge_detail_loop(_, _)
merge_detail_loop(s, ds) ==
  IF ds = <<>> THEN s
  ELSE LET key == Head(ds) IN
    IF key \in s.keyword_detail_keys THEN merge_detail_loop(s, Tail(ds))
    ELSE merge_detail_loop(
           [s EXCEPT !.keyword_detail_keys = @ \cup {key},
                     !.cumulative_keyword_details = Append(@, key)],
           Tail(ds))

\* HybridPhishingSession._merge_keywords
merge_keywords(s, immediate_result) ==
  merge_detail_loop(merge_kw_loop(s, immediate_result.keywords),
                    immediate_result.keyword_details)

\* round(x, 2) of a value in 1/Scale points, in hundredths (ties to even)
round2(x) ==
  LET q == (x * 100) \div Scale
      r == (x * 100) % Scale
  IN IF 2 * r < Scale THEN q
     ELSE IF 2 * r > Scale THEN q + 1
     ELSE IF q % 2 = 0 THEN q ELSE q + 1

\* HybridPhishingSession._current_cumulative_snapshot
current_cumulative_snapshot(s) ==
  [level |-> level_from_probability(s.cumulative_probability, Scale),
   probability |-> round2(s.cumulative_probability),
   phishing_type |-> s.cumulative_phishing_type,
   keywords |-> s.cumulative_keywords,
   keyword_details |-> s.cumulative_keyword_details,
   method |-> "word_based_cumulative"]

\* factor_sum as it would be without the repeat dampening: every factor 1.0
factor_sum_undamped(kc, kws) ==
  Scale * Cardinality({i \in 1..Len(kws) : kws[i] # <<>>})

\* sum over the chunk's keywords of Scale / (1 + prev)
RECURSIVE factor_sum(_, _)
factor_sum(kc, kws) ==
  IF kws = <<>> THEN 0
  ELSE IF Head(kws) = <<>> THEN factor_sum(kc, Tail(kws))
  ELSE Scale \div (1 + count_of(kc, Head(kws))) + factor_sum(kc, Tail(kws))

nonempty_count(kws) == Cardinality({i \in 1..Len(kws) : kws[i] # <<>>})

\* delta = probability * risk_gain * repeat_factor, in 1/Scale points
risk_delta(s, immediate_result) ==
  IF nonempty_count(immediate_result.keywords) = 0
  THEN immediate_result.probability * RISK_GAIN * Scale
  ELSE (immediate_result.probability * RISK_GAIN
          * factor_sum(s.keyword_counts, immediate_result.keywords))
       \div nonempty_count(immediate_result.keywords)

\* self.cumulative_phishing_type = phishing_type, if the chunk carries one
set_type(s, immediate_result) ==
  IF immediate_result.phishing_type # None
  THEN [s EXCEPT !.cumulative_phishing_type = immediate_result.phishing_type]
  ELSE s

\* risky_update as it would be without the min(100.0, ...) clamp
risky_update_unclamped(s, immediate_result) ==
  merge_keywords(
    set_type([s EXCEPT !.cumulative_probability = @ + risk_delta(s, immediate_result)],
             immediate_result),
    immediate_result)

\* the risky branch of _update_cumulative_immediate (level > 0)
risky_update(s, immediate_result) ==
  merge_keywords(
    set_type([s EXCEPT !.cumulative_probability =
                         Min(100 * Scale, @ + risk_delta(s, immediate_result))],
             immediate_result),
    immediate_result)

\* safe_update as it would be if a safe chunk also forgot the keywords
safe_update_forgetting(s) ==
  [s EXCEPT !.cumulative_probability = Max(0, @ - (SAFE_DECAY2 * Scale) \div 2),
            !.cumulative_keywords = <<>>,
            !.keyword_counts = <<>>]

\* safe_update as it would be without the max(0.0, ...) floor
safe_update_unfloored(s) ==
  [s EXCEPT !.cumulative_probability = @ - (SAFE_DECAY2 * Scale) \div 2]

\* the safe branch of _update_cumulative_immediate (level = 0)
safe_update(s) ==
  [s EXCEPT !.cumulative_probability = Max(0, @ - (SAFE_DECAY2 * Scale) \div 2)]

\* HybridPhishingSession._update_cumulative_immediate: the session after it
\* (its return value is current_cumulative_snapshot of that session)
update_cumulative_immediate(s, immediate_result) ==
  IF immediate_result.level > 0 THEN risky_update(s, immediate_result)
  ELSE safe_update(s)

\* force_rule as it would be without the minimum-length test
force_rule_any_length(text) ==
  IF ~FORCE_FINAL_ENABLED THEN FALSE
  ELSE IF text = <<>> THEN FALSE
  ELSE IF text[Len(text)] \in FinalMarkers THEN TRUE
  ELSE count_spaces(text) >= 2

\* force_rule as it would be if only a sentence-final marker forced the
\* finalization
force_rule_markers_only(text) ==
  IF ~FORCE_FINAL_ENABLED THEN FALSE
  ELSE IF Len(text) < MIN_CHARS_FOR_KOBERT THEN FALSE
  ELSE text[Len(text)] \in FinalMarkers

\* _should_force_finalize on the stripped text
force_rule(text) ==
  IF ~FORCE_FINAL_ENABLED THEN FALSE
  ELSE IF Len(text) < MIN_CHARS_FOR_KOBERT THEN FALSE
  ELSE IF text[Len(text)] \in FinalMarkers THEN TRUE
  ELSE count_spaces(text) >= 2

\* HybridPhishingSession._should_force_finalize
should_force_finalize(s, sentence) == force_rule(strip(sentence))

\* HybridPhishingSession._append_history
append_history(s, sentence, is_final, chunk_immediate, cumulative_snapshot, now) ==
  IF ~is_final \/ sentence = <<>> THEN s
  ELSE [s EXCEPT !.conversation_log =
          Append(@, [text |-> sentence, is_final |-> TRUE, timestamp |-> now,
                     chunk_immediate |-> chunk_immediate,
                     immediate |-> cumulative_snapshot])]

\* deque_append as it would be on a deque without maxlen
deque_append_unbounded(buf, maxlen, x) == Append(buf, x)

\* deque(maxlen).append
deque_append(buf, maxlen, x) ==
  IF maxlen = 0 THEN buf
  ELSE IF Len(buf) >= maxlen THEN Append(Tail(buf), x)
  ELSE Append(buf, x)

\* The result of one session operation: the session after it, what it
\* returned (None when it raised), how many times it invoked each classifier,
\* and whether it set effective_final (committed the pending text).  fault names the classifier call that raises in this
\* operation, if that call is made and runs the analysis: "imm1" the first
\* detect_immediate, "imm2" the second, "comp" detect_comprehensive.
Faults == {"none", "imm1", "imm2", "comp"}
Outcome(s, ret, raised, ic, cc, ef) ==
  [s |-> s, ret |-> ret, raised |-> raised, imm_calls |-> ic, comp_calls |-> cc,
   effective_final |-> ef]

\* add_sentence, lines 627-629: the finalized-text state takes the sentence
store_sentence(s, sentence) ==
  [s EXCEPT !.sentence_buffer = deque_append(@, s.window_size, sentence),
            !.accumulated_text = @ \o <<SP>> \o sentence,
            !.sentence_count = @ + 1]

\* add_sentence, line 637: the gate of the comprehensive analysis
kobert_gate(s1) ==
  \/ s1.sentence_count >= Max(1, MIN_SENTENCES_FOR_KOBERT)
  \/ Len(strip(s1.accumulated_text)) >= MIN_CHARS_FOR_KOBERT

\* add_sentence, lines 635-644, with the immediate result imm in hand
add_sentence_comprehensive(s1, imm, ic, fault) ==
  IF ~kobert_gate(s1)
  THEN Outcome(s1, Some([immediate |-> Some(imm), comprehensive |-> None]),
               FALSE, ic, 0, FALSE)
  ELSE IF fault = "comp" /\ comprehensive_predicts(strip(s1.accumulated_text))
  THEN Outcome(s1, None, TRUE, ic, 1, FALSE)
  ELSE Outcome([s1 EXCEPT !.kobert_result =
                            Some(detect_comprehensive(strip(s1.accumulated_text)))],
               Some([immediate |-> Some(imm),
                     comprehensive |->
                       Some(detect_comprehensive(strip(s1.accumulated_text)))]),
               FALSE, ic, 1, FALSE)

\* add_sentence, lines 626-644, on the session s1 that has stored the sentence
add_sentence_analyse(s1, sentence, immediate_result, fault) ==
  IF immediate_result # None
  THEN add_sentence_comprehensive(s1, Val(immediate_result), 0, fault)
  ELSE IF fault = "imm1" /\ immediate_analyses(sentence)
  THEN Outcome(s1, None, TRUE, 1, 0, FALSE)
  ELSE add_sentence_comprehensive(s1, detect_immediate(sentence), 1, fault)

\* add_sentence as it would be if it fed the sentence's immediate result into
\* the cumulative score
add_sentence_scoring(s, sentence, immediate_result, fault) ==
  Outcome(update_cumulative_immediate(s, detect_immediate(sentence)),
          Some([immediate |-> Some(detect_immediate(sentence)),
                comprehensive |-> None]), FALSE, 1, 0, FALSE)

\* HybridPhishingSession.add_sentence
add_sentence(s, sentence, immediate_result, fault) ==
  IF sentence = <<>> \/ Len(strip(sentence)) < ADD_SENTENCE_MIN_CHARS
  THEN Outcome(s, Some([immediate |-> None, comprehensive |-> None]), FALSE, 0, 0, FALSE)
  ELSE add_sentence_analyse(store_sentence(s, sentence), sentence, immediate_result, fault)

\* process_fragment_blank as it would be if a blank sentence fell through to
\* the safe-chunk decay instead of returning early
process_fragment_blank_decays(s) ==
  Outcome(safe_update(s),
          Some([chunk_immediate |-> None,
                immediate |-> current_cumulative_snapshot(safe_update(s)),
                comprehensive |-> None,
                history |-> None, session_id |-> None]), FALSE, 1, 0, FALSE)

\* process_fragment on an empty or whitespace-only sentence (the early return)
process_fragment_blank(s) ==
  Outcome(s, Some([chunk_immediate |-> None,
                   immediate |-> current_cumulative_snapshot(s),
                   comprehensive |-> None,
                   history |-> None, session_id |-> None]), FALSE, 0, 0, FALSE)

\* effective_final: the pending text is committed on the final hint or when
\* the forced-finalization heuristic fires on it
decide_final(s, current, is_final) ==
  current # <<>> /\ (is_final \/ should_force_finalize(s, current))

\* the return value of process_fragment (lines 553-559)
fragment_return(s3, immediate_result, cumulative_snapshot, comprehensive) ==
  Some([chunk_immediate |-> Some(immediate_result),
        immediate |-> cumulative_snapshot,
        comprehensive |-> comprehensive,
        history |-> Some(s3.conversation_log),
        session_id |-> Some(s3.session_id)])

\* process_fragment, lines 548-559: r is what add_sentence did
commit_logged(r, final_sentence, final_immediate, immediate_result, cumulative_snapshot, now) ==
  IF r.raised THEN Outcome(r.s, None, TRUE, 2, r.comp_calls, TRUE)
  ELSE Outcome(append_history(r.s, final_sentence, TRUE, final_immediate,
                              cumulative_snapshot, now),
               fragment_return(append_history(r.s, final_sentence, TRUE, final_immediate,
                                              cumulative_snapshot, now),
                               immediate_result, cumulative_snapshot,
                               Val(r.ret).comprehensive),
               FALSE, 2, r.comp_calls, TRUE)

\* process_fragment, lines 547-549, with final_immediate in hand
commit_analysed(s2, final_sentence, final_immediate, immediate_result, cumulative_snapshot, fault, now) ==
  commit_logged(add_sentence(s2, final_sentence, Some(final_immediate), fault),
                final_sentence, final_immediate, immediate_result,
                cumulative_snapshot, now)

\* the finalizing branch of process_fragment (effective_final and final_sentence)
commit_final(s2, final_sentence, immediate_result, cumulative_snapshot, fault, now) ==
  IF fault = "imm2" /\ immediate_analyses(final_sentence)
  THEN Outcome(s2, None, TRUE, 2, 0, TRUE)
  ELSE commit_analysed(s2, final_sentence, detect_immediate(final_sentence),
                       immediate_result, cumulative_snapshot, fault, now)

\* process_fragment, lines 532-559: current is the joined pending text
fragment_decided(s1, sentence, current, effective_final, immediate_result, cumulative_snapshot, fault, now) ==
  IF ~effective_final
  THEN Outcome(append_history([s1 EXCEPT !.current_sentence = current], sentence,
                              FALSE, immediate_result, cumulative_snapshot, now),
               fragment_return([s1 EXCEPT !.current_sentence = current],
                               immediate_result, cumulative_snapshot, None),
               FALSE, 1, 0, FALSE)
  ELSE commit_final([s1 EXCEPT !.current_sentence = <<>>], current,
                    immediate_result, cumulative_snapshot, fault, now)

\* process_fragment, line 531 on: the pending text takes the sentence
fragment_joined(s1, sentence, is_final, current, immediate_result, fault, now) ==
  fragment_decided(s1, sentence, current, decide_final(s1, current, is_final),
                   immediate_result, current_cumulative_snapshot(s1), fault, now)

\* process_fragment, line 529 on, with the chunk's immediate result in hand
fragment_scored(s1, sentence, is_final, immediate_result, fault, now) ==
  fragment_joined(s1, sentence, is_final,
                  strip(strip(s1.current_sentence \o <<SP>> \o sentence)),
                  immediate_result, fault, now)

fragment_analysed(s, sentence, is_final, immediate_result, fault, now) ==
  fragment_scored(update_cumulative_immediate(s, immediate_result),
                  sentence, is_final, immediate_result, fault, now)

\* process_fragment on a sentence that is not blank
process_fragment_body(s, sentence, is_final, fault, now) ==
  IF fault = "imm1" /\ immediate_analyses(sentence)
  THEN Outcome(s, None, TRUE, 1, 0, FALSE)
  ELSE fragment_analysed(s, sentence, is_final, detect_immediate(sentence), fault, now)

\* HybridPhishingSession.process_fragment
process_fragment(s, sentence, is_final, fault, now) ==
  IF sentence = <<>> \/ strip(sentence) = <<>>
  THEN process_fragment_blank(s)
  ELSE process_fragment_body(s, sentence, is_final, fault, now)

\* _persist_conversation as it would be without its guard on an empty log
persist_conversation_always(s, sink, now) ==
  Append(sink, [session_id |-> s.session_id, started_at |-> s.started_at,
                ended_at |-> now, log |-> s.conversation_log])

\* _persist_conversation as it would be if reset() cleared the log before it
persist_conversation_late(s, sink, now) == sink

\* HybridPhishingSession._persist_conversation: the log sink after it
persist_conversation(s, sink, now) ==
  IF s.conversation_log = <<>> THEN sink
  ELSE Append(sink, [session_id |-> s.session_id, started_at |-> s.started_at,
                     ended_at |-> now, log |-> s.conversation_log])

\* HybridPhishingSession.reset: the session after it
reset(s, newId, now) ==
  [s EXCEPT !.sentence_buffer = <<>>,
            !.accumulated_text = <<>>,
            !.kobert_result = None,
            !.sentence_count = 0,
            !.cumulative_probability = 0,
            !.cumulative_keywords = <<>>,
            !.cumulative_keyword_details = <<>>,
            !.keyword_detail_keys = {},
            !.cumulative_phishing_type = None,
            !.conversation_log = <<>>,
            !.keyword_counts = <<>>,
            !.session_id = newId,
            !.started_at = now,
            !.current_sentence = <<>>]

\* ---------------------------------------------------------------- state
\* ------------------------------------------------- the streaming pipeline
\* np.frombuffer(pcm_bytes, dtype=np.int16) in calculate_volume raises
\* ValueError on a buffer whose size is not a multiple of the element size;
\* buffers under 2 bytes return 0.0 before it
calculate_volume_raises(n) == ~(n < 2) /\ n % 2 # 0

\* GrpcSTTStream.__init__: the adapter's own state
\*   closed: _closed is set; audio_q: _audio_q ("None" is the sentinel);
\*   client_closed: ClovaSpeechClient.close() has run; failed: the backend
\*   raised AioRpcError out of recognize()
NewStream ==
  [closed |-> FALSE, audio_q |-> <<>>, client_closed |-> FALSE, failed |-> FALSE]

\* feed as it would be without the test of _closed
feed_unguarded(a, chunk) == [a EXCEPT !.audio_q = Append(@, chunk)]

\* GrpcSTTStream.feed
feed(a, chunk) ==
  IF a.closed THEN a ELSE [a EXCEPT !.audio_q = Append(@, chunk)]

\* a close() that does nothing
close_nothing(a) == a

\* GrpcSTTStream.close
close(a) ==
  [a EXCEPT !.closed = TRUE,
            !.audio_q = IF a.closed THEN @ ELSE Append(@, "None"),
            !.client_closed = TRUE]

\* an asyncio task: where it stands and whether cancel() was called on it
NewTask(pc) == [pc |-> pc, cancel_req |-> FALSE, cause |-> "none", gen_open |-> FALSE]
done(t) == t.pc \in {"returned", "raised", "cancelled"}

\* a cancel() that requests nothing
cancel_unrequested(t) == t

\* t.cancel() on a task that is not done
cancel(t) == IF done(t) THEN t ELSE [t EXCEPT !.cancel_req = TRUE]

\* one entry of the record of close(), reset() and cancel() calls
Call(op, by) == [op |-> op, by |-> by]

\* the cancel() calls that reach the tasks still running
cancel_calls(rt, st, by) ==
  (IF done(rt) THEN <<>> ELSE <<Call("cancel_recv", by)>>)
    \o (IF done(st) THEN <<>> ELSE <<Call("cancel_send", by)>>)

\* an outbound event, as _send_json writes it
Event(kind, text) == [kind |-> kind, text |-> text]

VARIABLES
  sess,       \* the HybridPhishingSession object
  sink,       \* the log sink: the records written by _persist_conversation
  clock,      \* time.time(), one tick per operation
  nextId,     \* the next uuid4 (every id is fresh)
  nfaults,    \* classifier exceptions raised so far
  last,       \* the last session operation: its arguments, its outcome and
              \* the session it was called on
  handler,    \* transcribe_ws: its position and how its try block ended
  recv_task,  \* the task running _recv_audio
  send_task,  \* the task running _pump
  stt,        \* the GrpcSTTStream of the connection
  ws,         \* the WebSocket: open or not, client messages, events sent
  calls,      \* the close(), reset() and cancel() calls of the run, in order
  twin        \* a second session on the same detector, and the detector's
              \* lazily loaded classifier

svars == <<sess, sink, clock, nextId, nfaults, last, twin>>
pvars == <<handler, recv_task, send_task, stt, ws, calls>>
vars == <<sess, sink, clock, nextId, nfaults, last,
          handler, recv_task, send_task, stt, ws, calls, twin>>

\* the fragments the session is driven with
F_empty == <<>>
F_blank == <<SP>>
F_n == <<"n">>
F_ln == <<"l", "n", ".">>
F_scsc == <<"s", "c", SP, "s", "c">>
F_long == <<"h", "i", SP, "a", "c", SP, "p", "r">>
F_okD == <<"o", "k", "D">>
Fragments == {F_empty, F_blank, F_n, F_ln, F_scsc, F_long, F_okD}

\* the classifier exceptions that can still be raised
FaultChoices == IF nfaults < MaxFaults THEN Faults ELSE {"none"}

LastOp(op, sentence, is_final, r, pre) ==
  [op |-> op, sentence |-> sentence, is_final |-> is_final,
   raised |-> r.raised, ret |-> r.ret,
   imm_calls |-> r.imm_calls, comp_calls |-> r.comp_calls,
   effective_final |-> r.effective_final, pre |-> pre]

NoOutcome(s) == Outcome(s, None, FALSE, 0, 0, FALSE)

\* get_detector() and a second create_session(): the session `peer` shares
\* the detector with `sess`; kobert is the detector's _kobert_ready /
\* _kobert_error ("unloaded", "ready" or "error").  `alone` and kobert_alone
\* are the same session and detector in the run where no call is made on
\* `sess`.
NewTwin ==
  [peer |-> NewSession(WINDOW_SIZE, -1, 0), kobert |-> "unloaded",
   alone |-> NewSession(WINDOW_SIZE, -1, 0), kobert_alone |-> "unloaded"]

\* a connection not yet accepted: no task, a fresh session
Init ==
  /\ sess = NewSession(WINDOW_SIZE, 0, 0)
  /\ sink = <<>>
  /\ clock = 0
  /\ nextId = 1
  /\ nfaults = 0
  /\ last = LastOp("init", <<>>, FALSE, NoOutcome(NewSession(WINDOW_SIZE, 0, 0)),
                   NewSession(WINDOW_SIZE, 0, 0))
  /\ handler = [pc |-> "idle", cancelled |-> FALSE, res |-> "none"]
  /\ recv_task = NewTask("none")
  /\ send_task = NewTask("none")
  /\ stt = NewStream
  /\ ws = [open |-> TRUE, msgs |-> 0, events |-> <<>>]
  /\ calls = <<>>
  /\ twin = NewTwin

\* what a session call leaves behind: the session, the fault count, the record
SessionCall(op, sentence, is_final, r) ==
  /\ sess' = r.s
  /\ nfaults' = IF r.raised THEN nfaults + 1 ELSE nfaults
  /\ last' = LastOp(op, sentence, is_final, r, sess)

\* what session.reset() leaves behind
SessionReset ==
  /\ sink' = persist_conversation(sess, sink, clock + 1)
  /\ sess' = reset(sess, nextId, clock + 1)
  /\ nextId' = nextId + 1
  /\ last' = LastOp("reset", <<>>, FALSE, NoOutcome(sess), sess)
  /\ clock' = clock + 1
  /\ UNCHANGED nfaults

\* session.process_fragment(sentence, is_final), by any caller
ProcessFragment ==
  \E f \in Fragments, fin \in BOOLEAN, fault \in FaultChoices :
    /\ clock < MaxOps
    /\ SessionCall("process_fragment", f, fin,
                   process_fragment(sess, f, fin, fault, clock + 1))
    /\ clock' = clock + 1
    /\ UNCHANGED <<sink, nextId, twin>>
    /\ UNCHANGED pvars

\* session.reset()
Reset ==
  /\ clock < MaxOps
  /\ SessionReset
  /\ UNCHANGED twin
  /\ UNCHANGED pvars

Next == ProcessFragment \/ Reset

\* the session object under any sequence of calls
Spec == Init /\ [][Next]_vars

\* ------------------------------------------- the session under repetition
\* fragments of one risky word each
F_ac == <<"a", "c", ".">>
F_pr == <<"p", "r", ".">>
F_sc == <<"s", "c", ".">>
F_ac2 == <<"a", "c", "?">>
F_sc2 == <<"s", "c", "!">>
RiskyWordFragments == {F_ln, F_ac, F_pr, F_sc, F_ac2, F_sc2}

\* the longest run the exact arithmetic carries: Scale is a multiple of every
\* 1 + prev up to it
MaxRepeat == MaxOps + 1

\* session.process_fragment(f, is_final) with the same f as the call before
RepeatFragment ==
  \E f \in RiskyWordFragments, fin \in BOOLEAN :
    /\ clock < MaxRepeat
    /\ clock = 0 \/ f = last.sentence
    /\ SessionCall("process_fragment", f, fin,
                   process_fragment(sess, f, fin, "none", clock + 1))
    /\ clock' = clock + 1
    /\ UNCHANGED <<sink, nextId, twin>>
    /\ UNCHANGED pvars

\* a fresh session fed one risky single-word fragment over and over
RepeatSpec == Init /\ [][RepeatFragment]_vars

\* -------------------------------------------------- the session under decay
\* fragments whose immediate result has level 0
SafeFragments == {F_n}

\* the safe fragments that bring the highest score, 100, down to 0
MaxSafe == (2 * 100 + SAFE_DECAY2 - 1) \div SAFE_DECAY2

\* session.process_fragment(f, is_final) on a safe fragment: the first one
\* after a run of risky ones, or the one of the call before once more
FeedSafe ==
  \E f \in SafeFragments, fin \in BOOLEAN :
    /\ clock < MaxRepeat + MaxSafe
    /\ \/ last.sentence \notin SafeFragments
       \/ f = last.sentence /\ fin = last.is_final
    /\ SessionCall("process_fragment", f, fin,
                   process_fragment(sess, f, fin, "none", clock + 1))
    /\ clock' = clock + 1
    /\ UNCHANGED <<sink, nextId, twin>>
    /\ UNCHANGED pvars

\* the risky run goes on only until the first safe fragment
RepeatRisky == last.sentence \notin SafeFragments /\ RepeatFragment

DecayNext == RepeatRisky \/ FeedSafe

\* a session brought to some score by risky fragments, then fed safe ones
DecaySpec == Init /\ [][DecayNext]_vars

\* a step of FeedSafe, told from the states it joins
SafeStep == clock' = clock + 1 /\ last'.sentence \in SafeFragments

\* the same, with a caller that keeps feeding safe fragments: weak fairness
\* of FeedSafe, WF_vars(FeedSafe), written out with its enabling condition
\* (FeedSafe is enabled exactly while clock < MaxRepeat + MaxSafe)
FairDecaySpec ==
  DecaySpec /\ ([]<>(~(clock < MaxRepeat + MaxSafe)) \/ []<><<SafeStep>>_vars)

\* --------------------------------------------- sessions of a small window
\* the window_size given to create_session
WindowSizes == {1, 2}

\* a session created with a small window
WindowInit ==
  \E w \in WindowSizes :
    /\ sess = NewSession(w, 0, 0)
    /\ sink = <<>>
    /\ clock = 0
    /\ nextId = 1
    /\ nfaults = 0
    /\ last = LastOp("init", <<>>, FALSE, NoOutcome(NewSession(w, 0, 0)),
                     NewSession(w, 0, 0))
    /\ handler = [pc |-> "idle", cancelled |-> FALSE, res |-> "none"]
    /\ recv_task = NewTask("none")
    /\ send_task = NewTask("none")
    /\ stt = NewStream
    /\ ws = [open |-> TRUE, msgs |-> 0, events |-> <<>>]
    /\ calls = <<>>
    /\ twin = NewTwin

\* the session object of a small window under any sequence of calls
WindowSpec == WindowInit /\ [][Next]_vars

\* ------------------------------------------ the session used directly
\* the sentences added directly: blank, under ADD_SENTENCE_MIN_CHARS, of
\* exactly that length, and longer
DirectSentences == {F_blank, F_n, F_scsc, F_long}

\* session.add_sentence(sentence), called by a user of the session itself
AddSentence ==
  \E f \in DirectSentences, fault \in FaultChoices :
    /\ clock < MaxOps
    /\ SessionCall("add_sentence", f, FALSE, add_sentence(sess, f, None, fault))
    /\ clock' = clock + 1
    /\ UNCHANGED <<sink, nextId, twin>>
    /\ UNCHANGED pvars

\* the fragments given between them: a risky word that stays pending and a
\* longer text that is finalized
DirectFragments == {F_ln, F_long}

\* session.process_fragment(f, is_final) on the same session
DirectFragment ==
  \E f \in DirectFragments, fin \in BOOLEAN, fault \in FaultChoices :
    /\ clock < MaxOps
    /\ SessionCall("process_fragment", f, fin,
                   process_fragment(sess, f, fin, fault, clock + 1))
    /\ clock' = clock + 1
    /\ UNCHANGED <<sink, nextId, twin>>
    /\ UNCHANGED pvars

DirectNext == DirectFragment \/ AddSentence

\* the session object under fragments and directly added sentences
DirectSpec == Init /\ [][DirectNext]_vars

\* ------------------------------------- the session without the final hint
\* fragments of one word each, so that the pending text holds as many words
\* as fragments were joined into it
F_ok == <<"o", "k">>
WordFragments == {F_n, F_ok, F_ln, F_okD}

\* the longest run of fragments fed
MaxRun == MaxOps + 1

\* session.process_fragment(f, False): a transcriber that never sets the
\* final hint
FeedPartial ==
  \E f \in WordFragments, fault \in FaultChoices :
    /\ clock < MaxRun
    /\ SessionCall("process_fragment", f, FALSE,
                   process_fragment(sess, f, FALSE, fault, clock + 1))
    /\ clock' = clock + 1
    /\ UNCHANGED <<sink, nextId, twin>>
    /\ UNCHANGED pvars

\* a fresh session fed one-word fragments, none of them final
PartialSpec == Init /\ [][FeedPartial]_vars

\* ------------------------------------------- two sessions on one detector
\* VoicePhishingDetector._ensure_kobert_ready: the detector's state after it;
\* load is whether loading the model succeeds if it is tried now
ensure_kobert_ready(kobert, load) ==
  IF kobert = "ready" THEN "ready"
  ELSE IF kobert = "error" THEN "error"
  ELSE IF load = "ok" THEN "ready"
  ELSE "error"

\* whether process_fragment(sentence, is_final) on s runs _predict_kobert
reaches_kobert(s, sentence, is_final, now) ==
  process_fragment(s, sentence, is_final, "comp", now).raised

\* the exception of a call: _ensure_kobert_ready raises the load error, new or
\* remembered
engine_fault(s, sentence, is_final, kobert, load, now) ==
  IF reaches_kobert(s, sentence, is_final, now)
       /\ ensure_kobert_ready(kobert, load) = "error"
  THEN "comp" ELSE "none"

\* the detector after the call
engine_after(s, sentence, is_final, kobert, load, now) ==
  IF reaches_kobert(s, sentence, is_final, now)
  THEN ensure_kobert_ready(kobert, load) ELSE kobert

\* process_fragment on a session of a detector in state kobert
engine_call(s, sentence, is_final, kobert, load, now) ==
  process_fragment(s, sentence, is_final,
                   engine_fault(s, sentence, is_final, kobert, load, now), now)

F_talk == <<"h", "i", SP, "a", "c", SP, "p", "r", SP, "o", "k">>
TwoFragments == {F_n, F_ln, F_talk}
Loads == {"ok", "fails"}

\* sess.process_fragment(f, is_final)
CallA ==
  \E f \in TwoFragments, fin \in BOOLEAN, load \in Loads :
    /\ clock < MaxOps
    /\ SessionCall("process_fragment", f, fin,
                   engine_call(sess, f, fin, twin.kobert, load, clock + 1))
    /\ twin' = [twin EXCEPT !.kobert =
                              engine_after(sess, f, fin, @, load, clock + 1)]
    /\ clock' = clock + 1
    /\ UNCHANGED <<sink, nextId>>
    /\ UNCHANGED pvars

\* peer.process_fragment(f, is_final), in both runs
CallB ==
  \E f \in TwoFragments, fin \in BOOLEAN, load \in Loads :
    /\ clock < MaxOps
    /\ twin' =
         [peer |-> engine_call(twin.peer, f, fin, twin.kobert, load, clock + 1).s,
          kobert |-> engine_after(twin.peer, f, fin, twin.kobert, load, clock + 1),
          alone |-> engine_call(twin.alone, f, fin, twin.kobert_alone, load,
                                clock + 1).s,
          kobert_alone |-> engine_after(twin.alone, f, fin, twin.kobert_alone, load,
                                        clock + 1)]
    /\ clock' = clock + 1
    /\ UNCHANGED <<sess, sink, nextId, nfaults, last>>
    /\ UNCHANGED pvars

\* peer.reset(), in both runs
ResetB ==
  /\ clock < MaxOps
  /\ sink' = persist_conversation(twin.peer, sink, clock + 1)
  /\ twin' = [twin EXCEPT !.peer = reset(@, nextId, clock + 1),
                          !.alone = reset(@, nextId, clock + 1)]
  /\ nextId' = nextId + 1
  /\ clock' = clock + 1
  /\ UNCHANGED <<sess, nfaults, last>>
  /\ UNCHANGED pvars

TwoNext == CallA \/ Reset \/ CallB \/ ResetB

\* two sessions of one detector under any interleaving of calls
TwoSpec == Init /\ [][TwoNext]_vars

\* ---------------------------------------------------- pipeline: the handler
\* the lengths of the binary frames a client sends
FrameLens == {1, 2, 3}

\* the texts the backend's responses carry
PipeTexts == {F_blank, F_n, F_long}

\* what ws.send_text raises on a closed connection, by Starlette version
SendFailures == {"WebSocketDisconnect", "RuntimeError"}

\* the task is suspended in its loop and no cancel() is pending on it
Awaiting(t, pc) == t.pc = pc /\ ~t.cancel_req

\* transcribe_ws, lines 82-93: accept, the ready event, the session, the
\* adapter and the two tasks
HandlerStart ==
  /\ handler.pc = "idle"
  /\ handler' = [handler EXCEPT !.pc = "gather"]
  /\ ws' = [ws EXCEPT !.events = Append(@, Event("state", <<"ready">>))]
  /\ recv_task' = NewTask("recv")
  /\ send_task' = NewTask("next")
  /\ stt' = NewStream
  /\ UNCHANGED <<calls, svars>>

\* how `await asyncio.gather(recv_task, send_task)` ends, if it can end now:
\* a cancelled gather ends when both children are done, an uncancelled one
\* when a child raises or is cancelled, or both children are done
gather_result ==
  IF handler.cancelled
  THEN IF done(recv_task) /\ done(send_task) THEN "CancelledError" ELSE "pending"
  ELSE IF recv_task.pc = "raised" THEN "ValueError"
  ELSE IF "cancelled" \in {recv_task.pc, send_task.pc} THEN "CancelledError"
  ELSE IF done(recv_task) /\ done(send_task) THEN "returned"
  ELSE "pending"

\* transcribe_ws, lines 96-110: gather ends, the except clauses, and in the
\* finally block stt.close() up to its await of the client's close()
HandlerGatherEnds ==
  /\ handler.pc = "gather"
  /\ gather_result # "pending"
  /\ handler' = [handler EXCEPT !.pc = "closing", !.res = gather_result]
  /\ stt' = close(stt)
  /\ calls' = Append(calls, Call("close", "handler"))
  /\ UNCHANGED <<recv_task, send_task, ws, svars>>

\* transcribe_ws, lines 110-120: stt.close() returns, session.reset(), and
\* cancel() on each task that is not done
HandlerTeardown ==
  /\ handler.pc = "closing"
  /\ handler' = [handler EXCEPT !.pc = "done"]
  /\ SessionReset
  /\ calls' = calls \o <<Call("reset", "handler")>>
                \o cancel_calls(recv_task, send_task, "handler")
  /\ recv_task' = cancel(recv_task)
  /\ send_task' = cancel(send_task)
  /\ UNCHANGED <<stt, ws, twin>>

\* the server cancels the handler's task while it awaits gather: gather's
\* cancel() cancels the children that are not done
CancelInGather ==
  /\ handler.pc = "gather"
  /\ gather_result = "pending"
  /\ ~handler.cancelled
  /\ handler' = [handler EXCEPT !.cancelled = TRUE]
  /\ calls' = calls \o cancel_calls(recv_task, send_task, "gather")
  /\ recv_task' = cancel(recv_task)
  /\ send_task' = cancel(send_task)
  /\ UNCHANGED <<stt, ws, svars>>

\* the server cancels the handler's task while it awaits stt.close() in the
\* finally block: CancelledError is not an Exception, so neither
\* contextlib.suppress(Exception) in close() nor `except Exception` at line
\* 111 stops it, and the rest of the finally block does not run
CancelInClose ==
  /\ handler.pc = "closing"
  /\ handler' = [handler EXCEPT !.pc = "done", !.res = "CancelledError"]
  /\ UNCHANGED <<recv_task, send_task, stt, ws, calls, svars>>

\* --------------------------------------------------- pipeline: _recv_audio
\* a binary frame: calculate_volume, then stt.feed
ReceiverBytes ==
  \E n \in FrameLens :
    /\ Awaiting(recv_task, "recv")
    /\ ws.open /\ ws.msgs < MaxMsgs
    /\ ws' = [ws EXCEPT !.msgs = @ + 1]
    /\ IF calculate_volume_raises(n)
       THEN recv_task' = [recv_task EXCEPT !.pc = "raised", !.cause = "ValueError"]
            /\ stt' = stt
       ELSE recv_task' = recv_task /\ stt' = feed(stt, "chunk")
    /\ UNCHANGED <<handler, send_task, calls, svars>>

\* a text frame: "__END__" closes the adapter and ends the loop, any other
\* text is ignored
ReceiverText ==
  \E t \in {"__END__", "other"} :
    /\ Awaiting(recv_task, "recv")
    /\ ws.open /\ ws.msgs < MaxMsgs
    /\ ws' = [ws EXCEPT !.msgs = @ + 1]
    /\ IF t = "__END__"
       THEN /\ recv_task' = [recv_task EXCEPT !.pc = "returned", !.cause = "end"]
            /\ stt' = close(stt)
            /\ calls' = Append(calls, Call("close", "receiver"))
       ELSE UNCHANGED <<recv_task, stt, calls>>
    /\ UNCHANGED <<handler, send_task, svars>>

\* the client goes away
ClientDisconnects ==
  /\ handler.pc # "idle"
  /\ ws.open
  /\ ws' = [ws EXCEPT !.open = FALSE]
  /\ UNCHANGED <<handler, recv_task, send_task, stt, calls, svars>>

\* ws.receive() delivers websocket.disconnect (or raises WebSocketDisconnect):
\* either way the adapter is closed and the loop ends
ReceiverDisconnect ==
  /\ Awaiting(recv_task, "recv")
  /\ ~ws.open
  /\ recv_task' = [recv_task EXCEPT !.pc = "returned", !.cause = "disconnect"]
  /\ stt' = close(stt)
  /\ calls' = Append(calls, Call("close", "receiver"))
  /\ UNCHANGED <<handler, send_task, ws, svars>>

\* CancelledError at `await ws.receive()`: no clause of _recv_audio catches it
ReceiverCancelled ==
  /\ recv_task.pc = "recv"
  /\ recv_task.cancel_req
  /\ recv_task' = [recv_task EXCEPT !.pc = "cancelled", !.cause = "CancelledError"]
  /\ UNCHANGED <<handler, send_task, stt, ws, calls, svars>>

\* --------------------------------------------------------- pipeline: _pump
\* the adapter once the backend has taken the head of the audio queue
taken(a) == [a EXCEPT !.audio_q = Tail(@)]

\* the backend has audio to answer: while the call is up, and for the audio
\* already queued when close() drains it
ResponseReady ==
  /\ ~stt.failed
  /\ stt.audio_q # <<>> /\ Head(stt.audio_q) = "chunk"

\* the backend's response stream is over: it has read the sentinel, or the
\* client under it was closed
StreamEnded ==
  stt.client_closed \/ (stt.audio_q # <<>> /\ Head(stt.audio_q) = "None")

\* pump_exit as it would be if _pump went back to its loop after the except
\* clause
pump_exit_resumes(cause, open) == [send_task EXCEPT !.cause = cause]

\* _pump has ended; open tells whether transcripts() is left suspended at its
\* yield (its finally clause has not run)
pump_exit(cause, open) ==
  [send_task EXCEPT !.pc = "returned", !.cause = cause, !.gen_open = open]

\* pump_events as it would be if the risk event did not depend on a
\* comprehensive result
pump_events_always_risk(text, is_final, fragment) ==
  <<Event(IF is_final THEN "final" ELSE "partial", text), Event("risk", text)>>

\* pump_events as it would be if the Pump announced the state with every
\* transcript
pump_events_with_state(text, is_final, fragment) ==
  <<Event("state", <<"ready">>),
    Event(IF is_final THEN "final" ELSE "partial", text)>>

\* the events one transcript produces (lines 195-219)
pump_events(text, is_final, fragment) ==
  <<Event(IF is_final THEN "final" ELSE "partial", text)>>
    \o (IF fragment.comprehensive # None THEN <<Event("risk", text)>> ELSE <<>>)

\* an exception leaves the loop body: __aexit__ closes the adapter, the except
\* clause sends its event best-effort, the generator stays suspended
PumpFails(a, cause, evs) ==
  /\ stt' = close(a)
  /\ calls' = Append(calls, Call("close", "aexit"))
  /\ send_task' = pump_exit(cause, TRUE)
  /\ ws' = IF ws.open THEN [ws EXCEPT !.events = @ \o evs] ELSE ws

\* the events are sent; transcripts() resumes after its yield and breaks if
\* the adapter is closed, running its finally clause and then __aexit__
PumpSends(a, evs) ==
  /\ ws' = [ws EXCEPT !.events = @ \o evs]
  /\ IF a.closed
     THEN /\ stt' = close(close(a))
          /\ calls' = calls \o <<Call("close", "transcripts"), Call("close", "aexit")>>
          /\ send_task' = pump_exit("closed", FALSE)
     ELSE /\ stt' = a
          /\ UNCHANGED <<calls, send_task>>

\* the loop body of _pump on one transcript; r is what process_fragment did
\* and exc what a send on a closed connection raises
PumpBody(a, text, is_final, r, exc) ==
  /\ SessionCall("process_fragment", text, is_final, r)
  /\ clock' = clock + 1
  /\ UNCHANGED <<sink, nextId, twin>>
  /\ IF r.raised
     THEN PumpFails(a, "model_fault", <<Event("error", <<"internal_error">>)>>)
     ELSE IF ~ws.open
     THEN PumpFails(a, exc, <<>>)
     ELSE PumpSends(a, pump_events(text, is_final, Val(r.ret)))

\* transcripts() yields (text, is_final) and _pump handles it
PumpTranscript ==
  \E text \in PipeTexts, is_final \in BOOLEAN, fault \in FaultChoices,
     exc \in SendFailures :
    /\ Awaiting(send_task, "next")
    /\ ResponseReady
    /\ strip(text) # <<>>
    /\ PumpBody(taken(stt), strip(text), is_final,
                process_fragment(sess, strip(text), is_final, fault, clock + 1), exc)
    /\ UNCHANGED <<handler, recv_task>>

\* transcripts() skips a response whose text is empty once stripped
AdapterSkips ==
  \E text \in PipeTexts :
    /\ Awaiting(send_task, "next")
    /\ ResponseReady
    /\ strip(text) = <<>>
    /\ stt' = taken(stt)
    /\ UNCHANGED <<handler, recv_task, send_task, ws, calls, svars>>

\* the response stream ends (the sentinel was sent, or the client is closed):
\* transcripts() runs its finally clause, then __aexit__, and _pump returns
PumpStreamEnds ==
  /\ Awaiting(send_task, "next")
  /\ ~stt.failed
  /\ StreamEnded
  /\ stt' = close(close(stt))
  /\ calls' = calls \o <<Call("close", "transcripts"), Call("close", "aexit")>>
  /\ send_task' = pump_exit("stream_end", FALSE)
  /\ UNCHANGED <<handler, recv_task, ws, svars>>

\* the backend is unavailable: recognize() raises AioRpcError, transcripts()
\* runs its finally clause, then __aexit__, and the except clause sends the
\* error event best-effort
PumpRpcError ==
  /\ Awaiting(send_task, "next")
  /\ ~stt.client_closed /\ ~stt.failed
  /\ stt' = close(close([stt EXCEPT !.failed = TRUE]))
  /\ calls' = calls \o <<Call("close", "transcripts"), Call("close", "aexit")>>
  /\ send_task' = pump_exit("AioRpcError", FALSE)
  /\ ws' = IF ws.open
           THEN [ws EXCEPT !.events = Append(@, Event("error", <<"stt_unavailable">>))]
           ELSE ws
  /\ UNCHANGED <<handler, recv_task, svars>>

\* CancelledError at the await of the next transcript: transcripts() runs its
\* finally clause, then __aexit__; no except clause of _pump catches it
PumpCancelled ==
  /\ send_task.pc = "next"
  /\ send_task.cancel_req
  /\ stt' = close(close(stt))
  /\ calls' = calls \o <<Call("close", "transcripts"), Call("close", "aexit")>>
  /\ send_task' = [send_task EXCEPT !.pc = "cancelled", !.cause = "CancelledError"]
  /\ UNCHANGED <<handler, recv_task, ws, svars>>

\* the event loop finalizes the generator _pump left suspended at its yield:
\* aclose() runs the finally clause of transcripts()
GeneratorFinalized ==
  /\ send_task.gen_open
  /\ send_task' = [send_task EXCEPT !.gen_open = FALSE]
  /\ stt' = close(stt)
  /\ calls' = Append(calls, Call("close", "transcripts"))
  /\ UNCHANGED <<handler, recv_task, ws, svars>>

\* ------------------------------------------------- pipeline: specifications
HandlerStep == HandlerStart \/ HandlerGatherEnds \/ HandlerTeardown
TaskStep ==
  \/ ReceiverDisconnect \/ ReceiverCancelled
  \/ PumpStreamEnds \/ PumpCancelled \/ GeneratorFinalized

PipeNext ==
  \/ HandlerStart \/ HandlerGatherEnds \/ HandlerTeardown
  \/ CancelInGather \/ CancelInClose
  \/ ReceiverBytes \/ ReceiverText \/ ClientDisconnects
  \/ ReceiverDisconnect \/ ReceiverCancelled
  \/ PumpTranscript \/ AdapterSkips \/ PumpStreamEnds \/ PumpRpcError
  \/ PumpCancelled \/ GeneratorFinalized

\* one connection, from accept to the end of the handler
PipeSpec == Init /\ [][PipeNext]_vars

\* the same, with the event loop running every step of the handler and of the
\* tasks that is ready; what the client, the backend and the server send is
\* not forced
FairPipeSpec == PipeSpec /\ WF_vars(HandlerStep) /\ WF_vars(TaskStep)

\* ----------------------------------- pipeline over WebsocketSTTStream
\* WebsocketSTTStream.__init__: the adapter's own state
\*   closed: _closed is set; audio_q: _audio_q; conn: _conn ("none" until
\*   __aenter__ assigns it, then "open", then "closed"); sender: the
\*   _send_audio task of transcripts(); eoi: how many times the connection was
\*   told to close; received: the backend's messages read so far
NewSocketStream ==
  [closed |-> FALSE, audio_q |-> <<>>, conn |-> "none", sender |-> "none",
   eoi |-> 0, received |-> 0]

\* WebsocketSTTStream.feed
socket_feed(a, chunk) == [a EXCEPT !.audio_q = Append(@, chunk)]

\* WebsocketSTTStream.close
socket_close(a) ==
  [a EXCEPT !.closed = TRUE,
            !.conn = IF @ = "open" THEN "closed" ELSE @,
            !.eoi = IF a.conn = "open" THEN @ + 1 ELSE @]

\* WebsocketSTTStream.__aenter__ once websockets.connect has returned, and
\* the start of transcripts(): the sender task is created
socket_aenter(a) == [a EXCEPT !.conn = "open", !.sender = "running"]

\* the finally clause of transcripts(): sender.cancel() and `await sender`
transcripts_finally(a) ==
  [a EXCEPT !.sender = IF @ = "running" THEN "cancelled" ELSE @]

\* `await sender` on a sender that was still running raises CancelledError,
\* which contextlib.suppress(Exception) lets through
sender_cancel_escapes(a) == a.sender = "running"

\* transcribe_ws, lines 82-93, with STT_PROVIDER=ws: _pump starts in
\* __aenter__, awaiting websockets.connect
SocketStart ==
  /\ handler.pc = "idle"
  /\ handler' = [handler EXCEPT !.pc = "gather"]
  /\ ws' = [ws EXCEPT !.events = Append(@, Event("state", <<"ready">>))]
  /\ recv_task' = NewTask("recv")
  /\ send_task' = NewTask("enter")
  /\ stt' = NewSocketStream
  /\ UNCHANGED <<calls, svars>>

\* transcribe_ws, lines 96-110: gather ends and the finally block calls
\* stt.close(), which awaits _conn.close()
SocketGatherEnds ==
  /\ handler.pc = "gather"
  /\ gather_result # "pending"
  /\ stt.conn # "none"
  /\ handler' = [handler EXCEPT !.pc = "closing", !.res = gather_result]
  /\ stt' = socket_close(stt)
  /\ calls' = Append(calls, Call("close", "handler"))
  /\ UNCHANGED <<recv_task, send_task, ws, svars>>

\* transcribe_ws, lines 96-120, while no connection is assigned: stt.close()
\* has nothing to await, so close(), session.reset() and the cancel() calls
\* run without a suspension point
SocketTeardownAtOnce ==
  /\ handler.pc = "gather"
  /\ gather_result # "pending"
  /\ stt.conn = "none"
  /\ handler' = [handler EXCEPT !.pc = "done", !.res = gather_result]
  /\ stt' = socket_close(stt)
  /\ SessionReset
  /\ calls' = calls \o <<Call("close", "handler"), Call("reset", "handler")>>
                \o cancel_calls(recv_task, send_task, "handler")
  /\ recv_task' = cancel(recv_task)
  /\ send_task' = cancel(send_task)
  /\ UNCHANGED <<ws, twin>>

\* the server cancels the handler's task while stt.close() awaits
\* _conn.close()
SocketCancelInClose ==
  /\ handler.pc = "closing"
  /\ handler' = [handler EXCEPT !.pc = "done", !.res = "CancelledError"]
  /\ UNCHANGED <<recv_task, send_task, stt, ws, calls, svars>>

\* _recv_audio: a binary frame: calculate_volume, then stt.feed
SocketReceiverBytes ==
  \E n \in FrameLens :
    /\ Awaiting(recv_task, "recv")
    /\ ws.open /\ ws.msgs < MaxMsgs
    /\ ws' = [ws EXCEPT !.msgs = @ + 1]
    /\ IF calculate_volume_raises(n)
       THEN /\ recv_task' = [recv_task EXCEPT !.pc = "raised", !.cause = "ValueError"]
            /\ UNCHANGED <<stt, calls>>
       ELSE /\ recv_task' = recv_task
            /\ stt' = socket_feed(stt, "chunk")
            /\ calls' = Append(calls, Call("feed", "receiver"))
    /\ UNCHANGED <<handler, send_task, svars>>

\* _recv_audio: "__END__" closes the adapter and ends the loop
SocketReceiverEnd ==
  /\ Awaiting(recv_task, "recv")
  /\ ws.open /\ ws.msgs < MaxMsgs
  /\ ws' = [ws EXCEPT !.msgs = @ + 1]
  /\ recv_task' = [recv_task EXCEPT !.pc = "returned", !.cause = "end"]
  /\ stt' = socket_close(stt)
  /\ calls' = Append(calls, Call("close", "receiver"))
  /\ UNCHANGED <<handler, send_task, svars>>

\* _recv_audio: websocket.disconnect (or WebSocketDisconnect)
SocketReceiverDisconnect ==
  /\ Awaiting(recv_task, "recv")
  /\ ~ws.open
  /\ recv_task' = [recv_task EXCEPT !.pc = "returned", !.cause = "disconnect"]
  /\ stt' = socket_close(stt)
  /\ calls' = Append(calls, Call("close", "receiver"))
  /\ UNCHANGED <<handler, send_task, ws, svars>>

\* websockets.connect returns: __aenter__ assigns _conn whether or not the
\* adapter was closed meanwhile, and transcripts() starts
PumpConnects ==
  /\ Awaiting(send_task, "enter")
  /\ send_task' = [send_task EXCEPT !.pc = "next"]
  /\ stt' = socket_aenter(stt)
  /\ UNCHANGED <<handler, recv_task, ws, calls, svars>>

\* websockets.connect raises: __aexit__ is not entered, `except Exception`
\* of _pump sends its event best-effort
PumpConnectFails ==
  /\ Awaiting(send_task, "enter")
  /\ send_task' = pump_exit("connect_failed", FALSE)
  /\ ws' = IF ws.open
           THEN [ws EXCEPT !.events = Append(@, Event("error", <<"internal_error">>))]
           ELSE ws
  /\ UNCHANGED <<handler, recv_task, stt, calls, svars>>

\* _send_audio takes a chunk from the queue and sends it
SenderSends ==
  /\ handler.pc # "idle"
  /\ stt.sender = "running"
  /\ ~stt.closed /\ stt.conn = "open"
  /\ stt.audio_q # <<>>
  /\ stt' = taken(stt)
  /\ UNCHANGED <<handler, recv_task, send_task, ws, calls, svars>>

\* _send_audio ends: its loop sees _closed set, or _conn.send raises on a
\* connection the backend closed
SenderStops ==
  /\ handler.pc # "idle"
  /\ stt.sender = "running"
  /\ stt.closed \/ (stt.conn = "closed" /\ stt.audio_q # <<>>)
  /\ stt' = [stt EXCEPT !.sender = "done",
                        !.audio_q = IF stt.closed THEN @ ELSE Tail(@)]
  /\ UNCHANGED <<handler, recv_task, send_task, ws, calls, svars>>

\* the backend closes the connection
BackendCloses ==
  /\ handler.pc # "idle"
  /\ stt.conn = "open"
  /\ stt' = [stt EXCEPT !.conn = "closed"]
  /\ UNCHANGED <<handler, recv_task, send_task, ws, calls, svars>>

\* transcripts() ends: its finally clause, then __aexit__ of `async with stt`;
\* _pump returns, or ends cancelled when the sender's CancelledError escapes
SocketPumpEnds(a, cause) ==
  /\ stt' = socket_close(transcripts_finally(a))
  /\ calls' = Append(calls, Call("close", "aexit"))
  /\ send_task' = IF sender_cancel_escapes(a)
                  THEN [send_task EXCEPT !.pc = "cancelled", !.cause = "sender"]
                  ELSE pump_exit(cause, FALSE)

\* the iteration over _conn is over because the connection is closed
SocketStreamEnds ==
  /\ Awaiting(send_task, "next")
  /\ stt.conn = "closed"
  /\ SocketPumpEnds(stt, "stream_end")
  /\ UNCHANGED <<handler, recv_task, ws, svars>>

\* after a message transcripts() goes on to `if self._closed.is_set(): break`
SocketAfterMessage(a) ==
  IF a.closed
  THEN SocketPumpEnds(a, "closed")
  ELSE stt' = a /\ UNCHANGED <<calls, send_task>>

\* the adapter with one more message of the backend read
message_read(a) == [a EXCEPT !.received = @ + 1]

\* the backend sends a message with a text: transcripts() yields it and _pump
\* handles it; a send on a closed client connection raises exc, __aexit__
\* closes the adapter and the generator stays suspended at its yield
SocketTranscript ==
  \E is_final \in BOOLEAN, exc \in SendFailures :
    /\ Awaiting(send_task, "next")
    /\ stt.conn = "open" /\ stt.received < MaxMsgs
    /\ SessionCall("process_fragment", F_n, is_final,
                   process_fragment(sess, F_n, is_final, "none", clock + 1))
    /\ clock' = clock + 1
    /\ IF ws.open
       THEN /\ ws' = [ws EXCEPT !.events = @ \o
                        pump_events(F_n, is_final,
                          Val(process_fragment(sess, F_n, is_final, "none",
                                               clock + 1).ret))]
            /\ SocketAfterMessage(message_read(stt))
       ELSE /\ ws' = ws
            /\ stt' = socket_close(message_read(stt))
            /\ calls' = Append(calls, Call("close", "aexit"))
            /\ send_task' = pump_exit(exc, TRUE)
    /\ UNCHANGED <<handler, recv_task, sink, nextId, twin>>

\* the backend sends a message without a text: nothing is yielded
SocketSkips ==
  /\ Awaiting(send_task, "next")
  /\ stt.conn = "open" /\ stt.received < MaxMsgs
  /\ SocketAfterMessage(message_read(stt))
  /\ UNCHANGED <<handler, recv_task, ws, svars>>

\* CancelledError in _pump: inside websockets.connect nothing was entered and
\* no connection is assigned; at the await of the next message the finally
\* clause of transcripts() and __aexit__ run
SocketPumpCancelled ==
  /\ send_task.pc \in {"enter", "next"}
  /\ send_task.cancel_req
  /\ send_task' = [send_task EXCEPT !.pc = "cancelled", !.cause = "CancelledError"]
  /\ IF send_task.pc = "enter"
     THEN UNCHANGED <<stt, calls>>
     ELSE /\ stt' = socket_close(transcripts_finally(stt))
          /\ calls' = Append(calls, Call("close", "aexit"))
  /\ UNCHANGED <<handler, recv_task, ws, svars>>

\* the event loop finalizes the generator _pump left suspended at its yield
SocketGeneratorFinalized ==
  /\ send_task.gen_open
  /\ send_task' = [send_task EXCEPT !.gen_open = FALSE]
  /\ stt' = transcripts_finally(stt)
  /\ UNCHANGED <<handler, recv_task, ws, calls, svars>>

SocketHandlerStep ==
  SocketStart \/ SocketGatherEnds \/ SocketTeardownAtOnce \/ HandlerTeardown
SocketTaskStep ==
  \/ SocketReceiverDisconnect \/ ReceiverCancelled
  \/ PumpConnects \/ SenderStops \/ SocketStreamEnds
  \/ SocketPumpCancelled \/ SocketGeneratorFinalized

SockNext ==
  \/ SocketStart \/ SocketGatherEnds \/ SocketTeardownAtOnce \/ HandlerTeardown
  \/ CancelInGather \/ SocketCancelInClose
  \/ SocketReceiverBytes \/ SocketReceiverEnd \/ ClientDisconnects
  \/ SocketReceiverDisconnect \/ ReceiverCancelled
  \/ PumpConnects \/ PumpConnectFails \/ SenderSends \/ SenderStops
  \/ BackendCloses \/ SocketStreamEnds \/ SocketTranscript \/ SocketSkips
  \/ SocketPumpCancelled \/ SocketGeneratorFinalized

\* one connection served with the socket adapter
SockSpec == Init /\ [][SockNext]_vars

\* the same, with the event loop running every ready step of the handler and
\* of the tasks, and websockets.connect returning; what the client and the
\* backend send is not forced
FairSockSpec == SockSpec /\ WF_vars(SocketHandlerStep) /\ WF_vars(SocketTaskStep)

\* ------------------------------------------------------------ the claims
IsBlank(t) == strip(t) = <<>>
LastIsFragment == last.op = "process_fragment"

\* a session as __init__ or reset() leaves it
IsFresh(s) == s = NewSession(s.window_size, s.session_id, s.started_at)

\* C1: after every processFragment call (risky, safe, empty, final or
\* partial, in any order) cumulativeScore is within [0,100]: the gain of a
\* risky chunk is clamped at 100 and the decay of a safe chunk floored at 0.
C1_ScoreInRange ==
  /\ sess.cumulative_probability >= 0
  /\ sess.cumulative_probability <= 100 * Scale
  /\ LastIsFragment /\ ~IsBlank(last.sentence) /\ ~last.raised =>
       LET imm == detect_immediate(last.sentence)
           before == last.pre.cumulative_probability
       IN IF imm.level > 0
          THEN sess.cumulative_probability =
                 Min(100 * Scale, before + risk_delta(last.pre, imm))
          ELSE sess.cumulative_probability =
                 Max(0, before - (SAFE_DECAY2 * Scale) \div 2)

\* C1 witness: a risky chunk whose gain would carry the score past 100 has
\* been processed and the score stands at exactly 100.
C1_Witness_Clamped ==
  /\ LastIsFragment /\ ~last.raised /\ ~IsBlank(last.sentence)
  /\ detect_immediate(last.sentence).level > 0
  /\ last.pre.cumulative_probability
       + risk_delta(last.pre, detect_immediate(last.sentence)) > 100 * Scale
  /\ sess.cumulative_probability = 100 * Scale

\* the calls of one kind made so far in the run
CallCount(op) == Cardinality({i \in 1..Len(calls) : calls[i].op = op})
IsCancel(c) == c.op \in {"cancel_recv", "cancel_send"}
ErrorEvents == {i \in 1..Len(ws.events) : ws.events[i].kind = "error"}
TaskEnded == done(recv_task) \/ done(send_task)
TeardownBegun == handler.pc \in {"closing", "done"}

\* C2 (as claimed): whenever either task of the pipeline has ended, teardown
\* follows without waiting for the other task to end on its own: the handler
\* goes on to close the adapter, reset the session and cancel the other task
\* even if the client sends nothing more.
C2_TeardownWithoutWaiting == TaskEnded ~> TeardownBegun

\* C3 (as claimed): when the backend became unavailable during transcripts(),
\* the finished run has emitted exactly one error event and has invoked the
\* adapter's close() and the session's reset() exactly once each.
C3_BackendFailureTornDownOnce ==
  handler.pc = "done" /\ stt.failed =>
    /\ Cardinality(ErrorEvents) = 1
    /\ CallCount("close") = 1
    /\ CallCount("reset") = 1

\* C4 (as claimed): a classifier exception raised while process_fragment
\* handles a transcript never ends the pump: the pump keeps waiting for the
\* next transcript unless the stream itself has ended.
C4_ModelFaultNeverEndsPump ==
  LastIsFragment /\ last.raised => send_task.cause # "model_fault"

\* C5 (as claimed): an error event is on the outbound stream only if the STT
\* backend failed; classifier exceptions and transport faults emit none.
C5_ErrorEventOnlyOnBackendFailure == ErrorEvents # {} => stt.failed

\* C6 (as claimed): in every teardown the adapter's close() by the handler
\* comes first, then reset(), and only then is a running task cancelled: no
\* reset() without the handler's close() before it, no cancel() of a task
\* without the reset() before it.
C6_TeardownOrder ==
  \A j \in 1..Len(calls) :
    /\ calls[j].op = "reset" =>
         \E i \in 1..(j - 1) : calls[i] = Call("close", "handler")
    /\ IsCancel(calls[j]) =>
         \E i \in 1..(j - 1) : calls[i].op = "reset"

\* C7 (as claimed): however a run ends once its tasks were started, including
\* cancellation of the handler while it awaits close() in teardown,
\* reset() has been called exactly once when the handler is done.
C7_ResetExactlyOnce == handler.pc = "done" => CallCount("reset") = 1

\* C8 (as claimed): the log never shrinks between resets, a processFragment
\* call that does not finalize leaves it unchanged, and a call that finalizes
\* (commits the pending text) appends exactly one entry.
C8_LogGrowsByOneOnFinal ==
  LastIsFragment =>
    /\ Len(sess.conversation_log) =
         Len(last.pre.conversation_log) + (IF last.effective_final THEN 1 ELSE 0)
    /\ SubSeq(sess.conversation_log, 1, Len(last.pre.conversation_log))
         = last.pre.conversation_log

C10_ShortFragmentNeedsHint ==
  /\ LastIsFragment /\ IsFresh(last.pre) /\ ~IsBlank(last.sentence)
  /\ Len(strip(last.sentence)) < MIN_CHARS_FOR_KOBERT
  => /\ (~last.is_final /\ last.sentence[Len(last.sentence)] \notin FinalMarkers)
          => last.comp_calls = 0
     /\ last.is_final => last.comp_calls = 1

\* the score gained by the last call, and by the call a step makes
LastIncrement == sess.cumulative_probability - last.pre.cumulative_probability
StepIncrement == sess'.cumulative_probability - sess.cumulative_probability

\* probability * riskGain * 1/(1 + priorCount) with priorCount = k - 1
dampened(text, k) == (detect_immediate(text).probability * RISK_GAIN * Scale) \div k

\* C11 (as claimed): in a run of the same risky single-word fragment the k-th
\* call raises the score by exactly probability * riskGain / k, and by
\* strictly less than the call before it, for every length of the run.
C11_EveryIncrementDampened ==
  [][clock' = clock + 1 =>
       /\ StepIncrement = dampened(last'.sentence, clock')
       /\ clock >= 1 => StepIncrement < LastIncrement]_vars

\* C11 (amended): the k-th call raises the score by probability * riskGain / k
\* or by what is left up to 100, whichever is smaller; the gain is strictly
\* smaller than the one before while the score was below 100, and is 0 once
\* the score stands at 100.
C11_IncrementDampenedUpToClamp ==
  [][clock' = clock + 1 =>
       /\ StepIncrement = Min(dampened(last'.sentence, clock'),
                              100 * Scale - sess.cumulative_probability)
       /\ (clock >= 1 /\ sess.cumulative_probability < 100 * Scale)
            => StepIncrement < LastIncrement
       /\ sess.cumulative_probability = 100 * Scale => StepIncrement = 0]_vars

\* C11 witness: the run has reached a call whose dampened gain was cut by the
\* clamp: the gain is positive, below probability * riskGain / k, and the
\* score stands at 100.
C11_Witness_RunReachesClamp ==
  /\ LastIsFragment /\ clock >= 2
  /\ last.sentence \in RiskyWordFragments
  /\ LastIncrement > 0
  /\ LastIncrement < dampened(last.sentence, clock)
  /\ sess.cumulative_probability = 100 * Scale

\* the last call was given a safe fragment
LastIsSafe == LastIsFragment /\ last.sentence \in SafeFragments

\* C12: every safe fragment lowers the score by safeDecay, or to 0 when less
\* than safeDecay is left; fed repeatedly from any score they bring it to
\* exactly 0 after finitely many fragments, where it stays, never below 0.
C12_SafeDecayReachesZero ==
  /\ [][SafeStep =>
          /\ sess'.cumulative_probability =
               Max(0, sess.cumulative_probability - (SAFE_DECAY2 * Scale) \div 2)
          /\ sess'.cumulative_probability >= 0]_vars
  /\ LastIsSafe ~> [](sess.cumulative_probability = 0)

\* C12 witness: a safe fragment met a score above 0 and below safeDecay and
\* left it at exactly 0.
C12_Witness_FlooredAtZero ==
  /\ LastIsSafe
  /\ last.pre.cumulative_probability > 0
  /\ 2 * last.pre.cumulative_probability < SAFE_DECAY2 * Scale
  /\ sess.cumulative_probability = 0

\* a step that is a call of reset()
ResetStep == clock' = clock + 1 /\ last'.op = "reset"

\* the session with its id and start time replaced
rotated(s, id, now) == [s EXCEPT !.session_id = id, !.started_at = now]

\* C13: reset() right after reset() leaves every component of the session
\* as the first call left it, except session_id and started_at, and writes
\* nothing to the log sink.
C13_ResetTwiceIsResetOnce ==
  [][last.op = "reset" /\ ResetStep =>
       /\ sess' = rotated(sess, sess'.session_id, sess'.started_at)
       /\ sess'.session_id # sess.session_id
       /\ sink' = sink]_vars

\* C13 witness: reset() was called on the cleared session a reset() left
\* behind, the earlier reset() having flushed a log.
C13_Witness_SecondReset ==
  /\ last.op = "reset"
  /\ IsFresh(last.pre) /\ last.pre.session_id # 0
  /\ sink # <<>>
  /\ IsFresh(sess) /\ sess.session_id # last.pre.session_id

\* C14: reset() on a session whose log is not empty appends exactly one
\* record to the sink, keyed by the session id process_fragment reported and
\* holding the whole log in order, and leaves a cleared session with a new
\* id; between resets the log only grows at its end, and every call of
\* process_fragment that returns a log reports the id the record will carry.
C14_ResetFlushesLogFirst ==
  [][/\ (ResetStep /\ sess.conversation_log # <<>>) =>
          /\ Len(sink') = Len(sink) + 1
          /\ SubSeq(sink', 1, Len(sink)) = sink
          /\ sink'[Len(sink')].session_id = sess.session_id
          /\ sink'[Len(sink')].log = sess.conversation_log
          /\ sink'[Len(sink')].started_at = sess.started_at
          /\ IsFresh(sess') /\ sess'.session_id # sess.session_id
     /\ (clock' = clock + 1 /\ last'.op = "process_fragment") =>
          /\ sink' = sink
          /\ sess'.session_id = sess.session_id
          /\ SubSeq(sess'.conversation_log, 1, Len(sess.conversation_log))
               = sess.conversation_log
          /\ (~last'.raised /\ ~IsBlank(last'.sentence)) =>
               /\ Val(last'.ret).session_id = Some(sess.session_id)
               /\ Val(last'.ret).history = Some(sess'.conversation_log)]_vars

\* C14 witness: reset() has flushed a log of two entries: the sink's last
\* record holds them and the session is cleared.
C14_Witness_LogFlushed ==
  /\ last.op = "reset"
  /\ Len(last.pre.conversation_log) >= 2
  /\ sink # <<>>
  /\ sink[Len(sink)].log = last.pre.conversation_log
  /\ sess.conversation_log = <<>>

\* C15 (as claimed): a call on one session leaves the other session's state
\* unchanged, and the other session is at every moment in the state it would
\* be in had the calls on the first not happened.
C15_NoCrossContamination ==
  /\ [][last' # last => twin'.peer = twin.peer]_vars
  /\ [](twin.peer = twin.alone)

\* C16 (as claimed): once close() has been called on the adapter, the Pump's
\* iteration over transcripts() eventually ends, also when close() came
\* before the Pump had opened the connection and the backend sends nothing.
C16_CloseUnblocksPump == stt.closed ~> done(send_task)

\* C17: whenever the handler has finished, by whatever path (a task raised,
\* the tasks returned, the Pump or the Receiver or the handler was cancelled),
\* close() has been called on the adapter, the adapter is closed and its
\* connection is not open; this stays so afterwards, so no connection is
\* opened after the last close() and left open.
C17_FinishedMeansClosed ==
  handler.pc = "done" =>
    /\ CallCount("close") >= 1
    /\ stt.closed
    /\ stt.conn # "open"

\* C17 witness: the handler tore down while the Pump was still inside
\* websockets.connect; the Pump was cancelled there and no connection exists.
C17_Witness_CancelledWhileConnecting ==
  /\ handler.pc = "done"
  /\ send_task.pc = "cancelled" /\ send_task.cause = "CancelledError"
  /\ stt.closed /\ stt.conn = "none"

\* the step is a call of stt.feed by the Receiver
FeedStep ==
  /\ Len(calls') = Len(calls) + 1
  /\ calls'[Len(calls')] = Call("feed", "receiver")

\* C18 (as claimed): feed(chunk) called after close() is a no-op: the audio
\* queue holds after the call what it held before it.
C18_FeedAfterCloseIsNoOp ==
  [][stt.closed /\ FeedStep => stt'.audio_q = stt.audio_q]_vars

\* the step makes at least one call of stt.close()
CloseStep ==
  /\ Len(calls') > Len(calls)
  /\ \E i \in (Len(calls) + 1)..Len(calls') : calls'[i].op = "close"

\* what close() is about: the flag, the connection and the queue
adapter_state(a) == <<a.closed, a.conn, a.audio_q>>

\* C19 (as claimed): close() is idempotent over a pipeline run: a call on an
\* adapter that was already closed changes no adapter state, and the backend
\* is told the end of input at most once however many calls are made.
C19_CloseIsIdempotent ==
  /\ [][stt.closed /\ CloseStep => adapter_state(stt') = adapter_state(stt)]_vars
  /\ [](handler.pc # "idle" => stt.eoi <= 1)

\* the audio chunks waiting in the adapter's queue
queued_chunks(a) ==
  Cardinality({i \in 1..Len(a.audio_q) : a.audio_q[i] = "chunk"})

\* C20 (as claimed): the adapter's queue is bounded and feed() holds the
\* producer back: when the client sends MaxMsgs chunks and the backend takes
\* none, the queue never comes to hold all of them.
C20_QueueHoldsProducerBack == queued_chunks(stt) < MaxMsgs

\* the pending text a call decides on: the previous pending text joined with
\* the fragment
PendingJoined == strip(last.pre.current_sentence \o <<SP>> \o last.sentence)

\* the call was aborted by the exception of its first classifier call, before
\* it touched the pending text
FirstClassifierRaised == last.raised /\ last.imm_calls = 1

\* C21: a call on a non-empty fragment finalizes the pending text exactly when
\* the final hint is set, or forced finalization is enabled and the joined
\* pending text has at least MIN_CHARS_FOR_KOBERT characters and ends in a
\* sentence-final marker or holds two spaces; otherwise nothing is finalized
\* and the joined text stays pending.
C21_FinalizesExactlyOnHintOrForce ==
  LastIsFragment /\ ~IsBlank(last.sentence) /\ ~FirstClassifierRaised =>
    /\ last.effective_final <=>
         \/ last.is_final
         \/ /\ FORCE_FINAL_ENABLED
            /\ Len(PendingJoined) >= MIN_CHARS_FOR_KOBERT
            /\ \/ PendingJoined[Len(PendingJoined)] \in FinalMarkers
               \/ count_spaces(PendingJoined) >= 2
    /\ last.effective_final => sess.current_sentence = <<>>
    /\ ~last.effective_final =>
         /\ sess.current_sentence = PendingJoined
         /\ sess.conversation_log = last.pre.conversation_log
         /\ sess.sentence_count = last.pre.sentence_count

\* C21 witness: a fragment given without the final hint was joined to pending
\* text and the two spaces of the joined text forced the finalization.
C21_Witness_ForcedByTwoSpaces ==
  /\ LastIsFragment /\ ~last.raised /\ ~last.is_final
  /\ last.pre.current_sentence # <<>>
  /\ last.effective_final
  /\ PendingJoined[Len(PendingJoined)] \notin FinalMarkers
  /\ count_spaces(strip(last.sentence)) < 2

\* the last call finalized a sentence: it cleared the pending text and
\* appended a log entry
LastFinalized ==
  /\ LastIsFragment /\ last.effective_final
  /\ Len(sess.conversation_log) = Len(last.pre.conversation_log) + 1

\* C22 (as claimed): a call that finalizes a sentence also pushes it into the
\* sentence buffer, appends it to the accumulated text and adds one to the
\* sentence count, whatever its length; so the sentence count always equals
\* the number of log entries.
C22_FinalizedSentenceIsStored ==
  /\ LastFinalized =>
       /\ sess.sentence_buffer # <<>>
       /\ sess.sentence_buffer[Len(sess.sentence_buffer)] = PendingJoined
       /\ sess.accumulated_text = last.pre.accumulated_text \o <<SP>> \o PendingJoined
       /\ sess.sentence_count = last.pre.sentence_count + 1
  /\ sess.sentence_count = Len(sess.conversation_log)

\* the gate of the comprehensive analysis on the session as the call left it
GateOpen ==
  \/ sess.sentence_count >= MIN_SENTENCES_FOR_KOBERT
  \/ Len(strip(sess.accumulated_text)) >= MIN_CHARS_FOR_KOBERT

\* C23 (as claimed): a call invokes comprehensive() at most once, never when
\* it finalizes nothing, and when it finalizes a sentence exactly when the
\* sentence count or the stripped accumulated text has reached its minimum.
C23_ComprehensiveOnlyAtFinalization ==
  LastIsFragment =>
    /\ last.comp_calls <= 1
    /\ ~last.effective_final => last.comp_calls = 0
    /\ last.effective_final /\ ~last.raised => (last.comp_calls = 1 <=> GateOpen)

\* the step is the Pump handling one transcript
PumpStep == clock' = clock + 1 /\ last'.op = "process_fragment"

\* the events the step emits
NewEvents == SubSeq(ws'.events, Len(ws.events) + 1, Len(ws'.events))

\* the call of the step returned a comprehensive result
ComprehensiveProduced == ~last'.raised /\ Val(last'.ret).comprehensive # None

\* the partial or final event of the step's chunk
ChunkEvent == Event(IF last'.is_final THEN "final" ELSE "partial", last'.sentence)

C25_RiskTextIsFinalizedSentence ==
  [][PumpStep =>
       \A i \in 1..Len(NewEvents) :
         NewEvents[i].kind = "risk" =>
           NewEvents[i].text =
             strip(last'.pre.current_sentence \o <<SP>> \o last'.sentence)]_vars

\* the partial and final events among the events the step emits
ChunkEvents ==
  SelectSeq(NewEvents, LAMBDA e : e.kind \in {"partial", "final"})

\* C26 (as claimed): for every transcript with a non-empty trimmed text that
\* reaches the Pump of a connected client, the Pump calls processFragment
\* once and emits exactly one partial or final event, of the transcript's
\* kind and text; a transcript whose trimmed text is empty causes neither.
C26_OneCallOneEventPerTranscript ==
  [][/\ PumpStep /\ ws.open => ChunkEvents = <<ChunkEvent>>
     /\ ~PumpStep => ChunkEvents = <<>>]_vars

\* the Receiver got the end-of-stream message or a disconnect
ReceiverSawEnd == recv_task.cause \in {"end", "disconnect"}

NoDuplicates(seq) ==
  \A i, j \in 1..Len(seq) : seq[i] = seq[j] => i = j

\* C28 (as claimed): the keyword list and the keyword-details list of the
\* cumulative snapshot each hold no element twice, also when the same keyword
\* occurs in several risky chunks.
C28_CumulativeKeywordsDeduplicated ==
  /\ NoDuplicates(current_cumulative_snapshot(sess).keywords)
  /\ NoDuplicates(current_cumulative_snapshot(sess).keyword_details)

\* the sentences of a buffer as add_sentence appends them to the accumulated
\* text: each preceded by one space
RECURSIVE spaced(_)
spaced(buf) ==
  IF buf = <<>> THEN <<>> ELSE <<SP>> \o Head(buf) \o spaced(Tail(buf))

IsSuffix(t, text) ==
  /\ Len(t) <= Len(text)
  /\ SubSeq(text, Len(text) - Len(t) + 1, Len(text)) = t

\* C29: the sentence buffer never holds more than window_size sentences, and
\* it holds exactly the most recent of the sentences pushed since the last
\* reset, in the order they were pushed: as many as were pushed up to
\* window_size, and they are the tail of the accumulated text.
C29_BufferIsBoundedWindow ==
  /\ Len(sess.sentence_buffer) <= sess.window_size
  /\ Len(sess.sentence_buffer) = Min(sess.window_size, sess.sentence_count)
  /\ IsSuffix(spaced(sess.sentence_buffer), sess.accumulated_text)

\* C29 witness: more sentences were pushed than the window holds, the oldest
\* was evicted and the buffer is full.
C29_Witness_OldestEvicted ==
  /\ sess.sentence_count > sess.window_size
  /\ Len(sess.sentence_buffer) = sess.window_size
  /\ spaced(sess.sentence_buffer) # sess.accumulated_text

StateEvents == {i \in 1..Len(ws.events) : ws.events[i].kind = "state"}

\* C30: the state/ready event is emitted exactly once per pipeline run and it
\* is the first outbound event: nothing is emitted before the run starts, and
\* from then on the first event is state/ready and no other event is a state
\* event.
C30_ReadyOnceAndFirst ==
  /\ handler.pc = "idle" => ws.events = <<>>
  /\ handler.pc # "idle" =>
       /\ ws.events # <<>>
       /\ ws.events[1] = Event("state", <<"ready">>)
       /\ StateEvents = {1}

\* C30 witness: the run has ended after a transcript event and an error
\* event, and the stream still starts with its only state/ready event.
C30_Witness_ReadyThenOthers ==
  /\ handler.pc = "done"
  /\ Len(ws.events) >= 3
  /\ ErrorEvents # {}
  /\ ws.events[1].kind = "state"

\* the text has a word of the lexicon whose weight exceeds RISK_THRESHOLD
HasStrongKeyword(text) ==
  \E i \in 1..Len(token_ko(text)) :
    /\ token_ko(text)[i] \in DOMAIN df
    /\ df[token_ko(text)[i]] > RISK_THRESHOLD10

\* the step emits a risk event
RiskEmitted == \E i \in 1..Len(NewEvents) : NewEvents[i].kind = "risk"

\* C31 (as claimed): a final fragment with a keyword whose weight exceeds the
\* threshold, handled by the Pump of a connected client on a fresh session,
\* returns a chunk result of level >= 1, strictly raises the cumulative
\* score, and gets a risk event when the accumulated text has reached 6
\* characters.
C31_RiskyFinalFragmentRaisesRisk ==
  [][PumpStep /\ ws.open /\ IsFresh(sess) /\ last'.is_final
       /\ HasStrongKeyword(last'.sentence) =>
         /\ ~last'.raised
         /\ Val(Val(last'.ret).chunk_immediate).level >= 1
         /\ sess'.cumulative_probability > sess.cumulative_probability
         /\ Len(strip(sess'.accumulated_text)) >= MIN_CHARS_FOR_KOBERT
              => RiskEmitted]_vars

\* teardown has called session.reset()
ResetCalled == CallCount("reset") >= 1

\* C32: every step performs at most one Session operation, whole (a
\* processFragment of the Pump or the reset() of teardown, never both), and
\* once teardown has called reset() the Pump performs no processFragment and
\* nothing else touches the Session: the log stays empty after the flush.
C32_NoSessionCallAfterReset ==
  [][/\ sess' # sess =>
          /\ clock' = clock + 1
          /\ last'.pre = sess
          /\ \/ /\ last'.op = "process_fragment"
                /\ send_task.pc = "next" /\ handler' = handler /\ sink' = sink
             \/ /\ last'.op = "reset"
                /\ handler.pc # "done" /\ handler'.pc = "done"
                /\ send_task'.pc = send_task.pc
     /\ ResetCalled =>
          /\ ~PumpStep
          /\ sess' = sess
          /\ sess.conversation_log = <<>>]_vars

\* C32 witness: teardown has flushed the log of a Pump that had handled a
\* transcript and was still running when reset() was called, so that the
\* handler had to cancel it.
C32_Witness_ResetWhilePumpRuns ==
  /\ ResetCalled
  /\ sink # <<>>
  /\ \E i \in 1..Len(calls) : calls[i] = Call("cancel_send", "handler")

\* the step is the Receiver taking one client message
MessageStep == ws'.msgs = ws.msgs + 1

\* C33 (as claimed): every binary frame the Receiver takes is passed to the
\* adapter's feed, one feed per frame in arrival order, whatever its length,
\* and the Receiver goes on receiving: a message ends the Receiver only when
\* it is the end-of-stream message, and the volume computation never does.
C33_EveryFrameIsFed ==
  [][MessageStep =>
       \/ stt' = feed(stt, "chunk") /\ recv_task' = recv_task
       \/ stt' = stt /\ recv_task' = recv_task
       \/ stt' = close(stt) /\ recv_task'.pc = "returned"
            /\ recv_task'.cause = "end"]_vars

\* the fragments joined into a pending text of one-word fragments
FragmentsIn(t) == IF t = <<>> THEN 0 ELSE count_spaces(t) + 1

\* C34: without the final hint a pending text shorter than
\* MIN_CHARS_FOR_KOBERT is never finalized, and the fourth fragment joined
\* into a pending text always finalizes it, so the pending text never holds
\* more than three fragments.
C34_ShortNeverLongEventually ==
  /\ FragmentsIn(sess.current_sentence) <= 3
  /\ LastIsFragment /\ ~last.is_final /\ ~FirstClassifierRaised =>
       /\ Len(PendingJoined) < MIN_CHARS_FOR_KOBERT => ~last.effective_final
       /\ FragmentsIn(PendingJoined) >= 4 => last.effective_final

\* C34 witness: three one-letter fragments were pending, too short to be
\* finalized, and the fourth fragment forced the finalization.
C34_Witness_FourthFragmentFinalizes ==
  /\ LastIsFragment /\ ~last.is_final /\ ~last.raised
  /\ FragmentsIn(last.pre.current_sentence) = 3
  /\ Len(last.pre.current_sentence) < MIN_CHARS_FOR_KOBERT
  /\ last.effective_final
  /\ sess.current_sentence = <<>>

\* C35: an error event is terminal: a run emits at most one error event, and
\* once it is emitted no further event of any kind is emitted and no further
\* transcript is processed by the Session.
C35_ErrorEventIsTerminal ==
  [][/\ Cardinality(ErrorEvents') <= 1
     /\ ErrorEvents # {} => ws'.events = ws.events /\ ~PumpStep]_vars

\* C35 witness: the error event was emitted while audio was still queued for
\* the backend, after the Pump had already emitted a transcript's event, and
\* it is the last event of the run.
C35_Witness_ErrorWithAudioQueued ==
  /\ ErrorEvents = {Len(ws.events)}
  /\ \E i \in 1..Len(ws.events) : ws.events[i].kind \in {"partial", "final"}
  /\ \E i \in 1..Len(stt.audio_q) : stt.audio_q[i] = "chunk"

\* where the end-of-input sentinel stands in the audio queue
Sentinels(a) == {i \in 1..Len(a.audio_q) : a.audio_q[i] = "None"}

\* C36: in the RPC-streaming adapter, whatever the order of the Receiver's
\* feed() calls and of the close() calls of the Receiver, the Pump and the
\* handler, the audio queue holds the sentinel exactly once as soon as the
\* adapter is closed and not before, and the sentinel is the last item of
\* the queue: no chunk is enqueued behind it.
C36_SentinelOnceAndLast ==
  handler.pc # "idle" =>
    Sentinels(stt) = IF stt.closed THEN {Len(stt.audio_q)} ELSE {}

\* C36 witness: close() was called by the Receiver, by the Pump and by the
\* handler on an adapter that still held a chunk, and the queue holds the
\* chunk and then the one sentinel.
C36_Witness_ManyClosesOneSentinel ==
  /\ handler.pc = "done"
  /\ \A by \in {"receiver", "transcripts", "aexit", "handler"} :
       \E i \in 1..Len(calls) : calls[i] = Call("close", by)
  /\ stt.audio_q = <<"chunk", "None">>

\* the feed() calls made after the first close() call
FeedsAfterClose ==
  Cardinality({i \in 1..Len(calls) :
                 /\ calls[i].op = "feed"
                 /\ \E j \in 1..(i - 1) : calls[j].op = "close"})

\* C37 (as claimed): no accepted audio is lost at the end of input: when
\* close() has closed the backend connection and the adapter's send loop has
\* stopped, every chunk that feed() accepted before close() has been sent,
\* so the queue holds at most the chunks fed after it.
C37_CloseDrainsTheQueue ==
  stt.closed /\ stt.eoi >= 1 /\ stt.sender \in {"done", "cancelled"} =>
    queued_chunks(stt) <= FeedsAfterClose

\* the state of the session that is not finalized-text state
scoring_state(s) ==
  <<s.cumulative_probability, s.keyword_counts, s.cumulative_keywords,
    s.cumulative_keyword_details, s.keyword_detail_keys,
    s.cumulative_phishing_type, s.current_sentence, s.conversation_log,
    s.session_id, s.started_at, s.window_size>>

\* C38: addSentence leaves the score, the keyword counts and lists, the
\* dominant type, the pending text and the conversation log as they were,
\* for every sentence; for a sentence whose stripped length is below
\* ADD_SENTENCE_MIN_CHARS it changes no state at all and returns neither an
\* immediate nor a comprehensive result.
C38_AddSentenceFrame ==
  last.op = "add_sentence" =>
    /\ scoring_state(sess) = scoring_state(last.pre)
    /\ Len(strip(last.sentence)) < ADD_SENTENCE_MIN_CHARS =>
         /\ sess = last.pre
         /\ ~last.raised
         /\ last.ret = Some([immediate |-> None, comprehensive |-> None])

\* C38 witness: a sentence was added to a session with a score, keywords, a
\* pending text and a log entry, and the finalized-text state took it.
C38_Witness_AddedToBusySession ==
  /\ last.op = "add_sentence" /\ ~last.raised
  /\ sess.sentence_count = last.pre.sentence_count + 1
  /\ sess.cumulative_probability > 0
  /\ sess.cumulative_keywords # <<>>
  /\ sess.current_sentence # <<>>
  /\ sess.conversation_log # <<>>

\* what the session remembers of the keywords it has seen
keyword_state(s) ==
  <<s.keyword_counts, s.cumulative_keywords, s.cumulative_keyword_details,
    s.keyword_detail_keys, s.cumulative_phishing_type>>

\* the last call was given a chunk whose immediate result has level 0
LastChunkIsSafe ==
  /\ LastIsFragment /\ ~IsBlank(last.sentence) /\ ~FirstClassifierRaised
  /\ detect_immediate(last.sentence).level = 0

\* C39: a safe chunk erodes only the score: it lowers the cumulative score by
\* the decay (not below 0) and the pending text takes the chunk or is
\* committed, while the keyword counts, the keyword and keyword-details
\* lists and the dominant type stay as they were; no processFragment call
\* ever empties them, only reset() does.
C39_SafeChunkErodesOnlyScore ==
  /\ LastChunkIsSafe =>
       /\ sess.cumulative_probability =
            Max(0, last.pre.cumulative_probability - (SAFE_DECAY2 * Scale) \div 2)
       /\ keyword_state(sess) = keyword_state(last.pre)
       /\ sess.current_sentence =
            IF last.effective_final THEN <<>> ELSE PendingJoined
  /\ LastIsFragment =>
       /\ DOMAIN last.pre.keyword_counts \subseteq DOMAIN sess.keyword_counts
       /\ Len(last.pre.cumulative_keywords) <= Len(sess.cumulative_keywords)
       /\ Len(last.pre.cumulative_keyword_details)
            <= Len(sess.cumulative_keyword_details)
       /\ last.pre.keyword_detail_keys \subseteq sess.keyword_detail_keys
       /\ last.pre.cumulative_phishing_type # None
            => sess.cumulative_phishing_type # None
  /\ last.op = "reset" => keyword_state(sess) = keyword_state(NewSession(0, 0, 0))

\* C39 witness: a safe chunk met a session with a score, keywords and a
\* dominant type; the score went down and the keywords stayed.
C39_Witness_SafeAfterRisky ==
  /\ LastChunkIsSafe /\ ~last.raised
  /\ last.pre.cumulative_keywords # <<>>
  /\ last.pre.cumulative_phishing_type # None
  /\ sess.cumulative_probability < last.pre.cumulative_probability
  /\ sess.cumulative_keywords = last.pre.cumulative_keywords
====
